---- MODULE Spec2Model ----
(***************************************************************************)
(* A model of the recitation-scoring engine of quran-quest                 *)
(* (backend/app/services/recitation_service.py): the Arabic normalizer,    *)
(* the word-error-rate scorer with its word feedback, and the XP reward.   *)
(*                                                                         *)
(* Texts are sequences of Unicode code points, words are texts without     *)
(* whitespace.  Python floats that the code rounds are kept as exact       *)
(* rationals <<numerator, denominator>> until the rounding the code does;  *)
(* the reward's float arithmetic is modelled bit for bit (binary64).       *)
(***************************************************************************)
EXTENDS Integers, Sequences, FiniteSets, TLC

VARIABLES
    pc,                \* the step the modelled call sequence is at
    text,              \* normalize_arabic_text: the input text
    normalized,        \* normalize_arabic_text(text)
    renormalized,      \* normalize_arabic_text(normalized)
    transcription,     \* analyze_recitation_accuracy: argument transcription
    expected_text,     \* analyze_recitation_accuracy: argument expected_text
    wer,               \* the value of calculate_wer at line 185, a rational
    result,            \* the dictionary analyze_recitation_accuracy returns
    accuracy,          \* calculate_xp_reward: argument accuracy, in 1/100
    duration_seconds,  \* calculate_xp_reward: argument duration_seconds
    xp,                \* the value calculate_xp_reward returns
    handler,           \* endpoints: each request's handler, its locals
    temp_files,        \* endpoints: the requests whose upload file exists
    database,          \* endpoints: the committed rows
    daily_goal,        \* endpoints: what GET /daily-goal answered last
    now                \* endpoints: datetime.now(), in token lifetimes

vars == <<pc, text, normalized, renormalized, transcription, expected_text,
          wer, result, accuracy, duration_seconds, xp,
          handler, temp_files, database, daily_goal, now>>

\* The state of the endpoints, which the engine's functions do not touch.
server == <<handler, temp_files, database, daily_goal, now>>

-----------------------------------------------------------------------------
(* Code points.                                                            *)

SPACE == 32
ALEF_MADDA == 1570          \* U+0622
ALEF_HAMZA_ABOVE == 1571    \* U+0623
ALEF_HAMZA_BELOW == 1573    \* U+0625
ALEF == 1575                \* U+0627
BEH == 1576                 \* U+0628
TEH_MARBUTA == 1577         \* U+0629
SEEN == 1587                \* U+0633
HEH == 1607                 \* U+0647
ALEF_MAKSURA == 1609        \* U+0649
YEH == 1610                 \* U+064A
FATHATAN == 1611            \* U+064B
DAMMATAN == 1612            \* U+064C
KASRATAN == 1613            \* U+064D
FATHA == 1614               \* U+064E
DAMMA == 1615               \* U+064F
KASRA == 1616               \* U+0650
SHADDA == 1617              \* U+0651
SUKUN == 1618               \* U+0652
MADDAH == 1619              \* U+0653
HAMZA_ABOVE == 1620         \* U+0654
HAMZA_BELOW == 1621         \* U+0655
ALEF_SUPERSCRIPT == 1648    \* U+0670
ALEF_WASLA == 1649          \* U+0671
FATHA_ISOLATED == 65142     \* U+FE76, ARABIC FATHA ISOLATED FORM

\* The list the removal loop runs over.
diacritics ==
    {FATHATAN, DAMMATAN, KASRATAN, FATHA, DAMMA, KASRA, SHADDA, SUKUN,
     MADDAH, HAMZA_ABOVE, HAMZA_BELOW, ALEF_SUPERSCRIPT}

-----------------------------------------------------------------------------
(* Sequence helpers.                                                       *)

RECURSIVE Flatten(_)
Flatten(ss) == IF ss = <<>> THEN <<>> ELSE Head(ss) \o Flatten(Tail(ss))

\* All sequences over S of length at most n.
SeqsUpTo(S, n) == UNION {[1..k -> S] : k \in 0..n}

-----------------------------------------------------------------------------
(* normalize_arabic_text.                                                  *)

\* for d in diacritics: text = text.replace(d, '')
RemoveDiacritics(t) == SelectSeq(t, LAMBDA c : c \notin diacritics)

\* The compatibility decomposition of one code point.  Of the code points
\* above only U+FE76 has one: <compat> 0020 064E.
Decompose(c) == IF c = FATHA_ISOLATED THEN <<SPACE, FATHA>> ELSE <<c>>

\* unicodedata.normalize('NFKC', text) on texts of the code points above
\* that hold no mark of U+0653..U+0655: decomposition only, since the only
\* canonical compositions among these code points are Alef or Yeh with one
\* of those three marks, and no reordering arises.
NFKC(t) == Flatten([i \in 1..Len(t) |-> Decompose(t[i])])

\* A slip: the replace call for Alef with Hamza above left out.
FoldChar_without_hamza_above(c) ==
    CASE c \in {ALEF_MADDA, ALEF_HAMZA_BELOW, ALEF_WASLA} -> ALEF
      [] c = TEH_MARBUTA -> HEH
      [] c = ALEF_MAKSURA -> YEH
      [] OTHER -> c

\* The six chained text.replace(variant, canonical) calls.
FoldChar(c) ==
    CASE c \in {ALEF_MADDA, ALEF_HAMZA_ABOVE, ALEF_HAMZA_BELOW, ALEF_WASLA} -> ALEF
      [] c = TEH_MARBUTA -> HEH
      [] c = ALEF_MAKSURA -> YEH
      [] OTHER -> c

FoldVariants(t) == [i \in 1..Len(t) |-> FoldChar(t[i])]

IsWhitespace(c) == c = SPACE

RECURSIVE LStrip(_)
LStrip(t) ==
    IF t # <<>> /\ IsWhitespace(Head(t)) THEN LStrip(Tail(t)) ELSE t

RECURSIVE RStrip(_)
RStrip(t) ==
    IF t # <<>> /\ IsWhitespace(t[Len(t)])
    THEN RStrip(SubSeq(t, 1, Len(t) - 1))
    ELSE t

\* str.strip()
Strip(t) == RStrip(LStrip(t))

normalize_arabic_text(t) == Strip(FoldVariants(NFKC(RemoveDiacritics(t))))

-----------------------------------------------------------------------------
(* Bounds and inputs of the normalizer's specification.                    *)

MaxTextLen == 3

NormChars ==
    {SPACE, BEH, ALEF_HAMZA_ABOVE, TEH_MARBUTA, FATHA, FATHA_ISOLATED}

NormInputs == SeqsUpTo(NormChars, MaxTextLen)

\* The bound on the requests in flight at once, and their identities.
MaxRequests == 2
Requests == 1..MaxRequests

NoText == <<>>
NoHandlers == [r \in Requests |-> [pc |-> "idle"]]
NoDatabase == [recitation_results |-> {}, user_progress |-> <<>>,
               daily_xp |-> {}]
NoResult == [accuracy |-> 0, wer |-> 0, feedback |-> <<>>]

InitNormalize ==
    /\ pc = "raw"
    /\ text \in NormInputs
    /\ normalized = NoText
    /\ renormalized = NoText
    /\ transcription = NoText
    /\ expected_text = NoText
    /\ wer = <<0, 1>>
    /\ result = NoResult
    /\ accuracy = 0
    /\ duration_seconds = 0
    /\ xp = 0
    /\ handler = NoHandlers
    /\ temp_files = {}
    /\ database = NoDatabase
    /\ daily_goal = <<>>
    /\ now = 0

\* normalized = normalize_arabic_text(text)
Normalize ==
    /\ pc = "raw"
    /\ normalized' = normalize_arabic_text(text)
    /\ pc' = "once"
    /\ UNCHANGED <<text, renormalized, transcription, expected_text, wer,
                   result, accuracy, duration_seconds, xp>>
    /\ UNCHANGED server

\* renormalized = normalize_arabic_text(normalized)
Renormalize ==
    /\ pc = "once"
    /\ renormalized' = normalize_arabic_text(normalized)
    /\ pc' = "twice"
    /\ UNCHANGED <<text, normalized, transcription, expected_text, wer,
                   result, accuracy, duration_seconds, xp>>
    /\ UNCHANGED server

NextNormalize == Normalize \/ Renormalize

SpecNormalize == InitNormalize /\ [][NextNormalize]_vars

-----------------------------------------------------------------------------
(* Rationals <<n, d>> with d > 0, for the floats the scorer divides.       *)

RatLE(a, b) == a[1] * b[2] <= b[1] * a[2]
RatEq(a, b) == a[1] * b[2] = b[1] * a[2]
RatMin(a, b) == IF RatLE(a, b) THEN a ELSE b
RatMax(a, b) == IF RatLE(a, b) THEN b ELSE a

\* n / d rounded to the nearest integer, ties to the even one (n >= 0).
RoundHalfEven(n, d) ==
    LET q == n \div d
        r == n % d
    IN  IF 2 * r < d THEN q
        ELSE IF 2 * r > d THEN q + 1
        ELSE IF q % 2 = 0 THEN q ELSE q + 1

Pow10(k) == IF k = 2 THEN 100 ELSE 10000

\* round(x, k) of a float x >= 0, as a count of units of 10^-k.
round(x, k) == RoundHalfEven(x[1] * Pow10(k), x[2])

-----------------------------------------------------------------------------
(* calculate_wer.                                                          *)

RECURSIVE SplitFrom(_, _)
SplitFrom(t, cur) ==
    IF t = <<>> THEN (IF cur = <<>> THEN <<>> ELSE <<cur>>)
    ELSE IF IsWhitespace(Head(t))
         THEN (IF cur = <<>> THEN <<>> ELSE <<cur>>) \o SplitFrom(Tail(t), <<>>)
         ELSE SplitFrom(Tail(t), Append(cur, Head(t)))

\* str.split(): the maximal runs of non-whitespace, in order.
Split(t) == SplitFrom(t, <<>>)

Min2(a, b) == IF a <= b THEN a ELSE b
Max2(a, b) == IF a >= b THEN a ELSE b

\* One row of the edit-distance table: row is the part already filled in,
\* prev the row of the prefix one word shorter, x the word the row adds.
RECURSIVE LevRow(_, _, _, _)
LevRow(prev, x, b, row) ==
    IF Len(row) = Len(b) + 1 THEN row
    ELSE LET j == Len(row)
             sub == prev[j] + (IF x = b[j] THEN 0 ELSE 1)
             del == prev[j + 1] + 1
             ins == row[j] + 1
         IN  LevRow(prev, x, b, Append(row, Min2(sub, Min2(del, ins))))

RECURSIVE LevRows(_, _, _, _)
LevRows(a, b, i, prev) ==
    IF i > Len(a) THEN prev[Len(b) + 1]
    ELSE LevRows(a, b, i + 1, LevRow(prev, a[i], b, <<prev[1] + 1>>))

\* A slip: the words compared position by position.
levenshtein_distance_positional(a, b) ==
    Cardinality({k \in 1..Min2(Len(a), Len(b)) : a[k] # b[k]})
        + Max2(Len(a), Len(b)) - Min2(Len(a), Len(b))

\* Levenshtein.distance on two lists of words.
levenshtein_distance(a, b) ==
    LevRows(a, b, 1, [j \in 1..(Len(b) + 1) |-> j - 1])

\* A slip: the reference and the hypothesis taken in the other order.
calculate_wer_swapped(reference, hypothesis) ==
    LET ref_words == Split(Strip(reference))
        hyp_words == Split(Strip(hypothesis))
    IN  IF Len(hyp_words) = 0
        THEN (IF Len(ref_words) = 0 THEN <<0, 1>> ELSE <<1, 1>>)
        ELSE <<levenshtein_distance(hyp_words, ref_words), Len(hyp_words)>>

\* A slip: distance / max(1, len(ref_words)) with no case for an empty
\* reference.
calculate_wer_unguarded(reference, hypothesis) ==
    LET ref_words == Split(Strip(reference))
        hyp_words == Split(Strip(hypothesis))
    IN  <<levenshtein_distance(ref_words, hyp_words),
          IF Len(ref_words) = 0 THEN 1 ELSE Len(ref_words)>>

\* A slip: the distance divided by the number of words heard.
calculate_wer_over_hypothesis(reference, hypothesis) ==
    LET ref_words == Split(Strip(reference))
        hyp_words == Split(Strip(hypothesis))
    IN  IF Len(ref_words) = 0
        THEN (IF Len(hyp_words) = 0 THEN <<0, 1>> ELSE <<1, 1>>)
        ELSE <<levenshtein_distance(ref_words, hyp_words),
               Max2(1, Len(hyp_words))>>

calculate_wer(reference, hypothesis) ==
    LET ref_words == Split(Strip(reference))
        hyp_words == Split(Strip(hypothesis))
    IN  IF Len(ref_words) = 0
        THEN (IF Len(hyp_words) = 0 THEN <<0, 1>> ELSE <<1, 1>>)
        ELSE <<levenshtein_distance(ref_words, hyp_words), Len(ref_words)>>

-----------------------------------------------------------------------------
(* generate_word_feedback.                                                 *)

\* Optional[str]: None, or the one word.
None == <<>>
Some(w) == <<w>>

Verdict(index, word, expected, status, suggestion) ==
    [word_index |-> index, word |-> word, expected |-> expected,
     status |-> status, suggestion |-> suggestion]

\* A slip: the said word stored as the expected one.
ExtraVerdict_fields_swapped(j, said) == Verdict(j, <<>>, said, "extra", None)

\* A slip: a missing word reported without its suggestion.
MissingVerdict_no_suggestion(i, want) ==
    Verdict(i, <<>>, want, "missing", None)

\* A slip: the extra words numbered from 1.
ExtraVerdict_counted_from_one(j, said) ==
    Verdict(j + 1, said, <<>>, "extra", None)

\* A slip: a word that differs from the expected one passed as correct.
IncorrectVerdict_marked_correct(i, said, want) ==
    Verdict(i, said, want, "correct", Some(want))

\* The four dictionaries the loop appends.
ExtraVerdict(j, said) == Verdict(j, said, <<>>, "extra", None)
MissingVerdict(i, want) == Verdict(i, <<>>, want, "missing", Some(want))
CorrectVerdict(i, said, want) == Verdict(i, said, want, "correct", None)
IncorrectVerdict(i, said, want) ==
    Verdict(i, said, want, "incorrect", Some(want))

\* The while loop; i and j count from 0 as in the code.
RECURSIVE Walk(_, _, _, _, _)
Walk(expected_words, transcribed_words, i, j, feedback) ==
    IF ~(i < Len(expected_words) \/ j < Len(transcribed_words)) THEN feedback
    ELSE IF i >= Len(expected_words) THEN
        Walk(expected_words, transcribed_words, i, j + 1,
             Append(feedback, ExtraVerdict(j, transcribed_words[j + 1])))
    ELSE IF j >= Len(transcribed_words) THEN
        Walk(expected_words, transcribed_words, i + 1, j,
             Append(feedback, MissingVerdict(i, expected_words[i + 1])))
    ELSE IF expected_words[i + 1] = transcribed_words[j + 1] THEN
        Walk(expected_words, transcribed_words, i + 1, j + 1,
             Append(feedback,
                    CorrectVerdict(i, transcribed_words[j + 1],
                                   expected_words[i + 1])))
    ELSE
        Walk(expected_words, transcribed_words, i + 1, j + 1,
             Append(feedback,
                    IncorrectVerdict(i, transcribed_words[j + 1],
                                     expected_words[i + 1])))

\* A slip: the two texts taken in the other order.
generate_word_feedback_swapped(expected, transcribed) ==
    Walk(Split(transcribed), Split(expected), 0, 0, <<>>)

generate_word_feedback(expected, transcribed) ==
    Walk(Split(expected), Split(transcribed), 0, 0, <<>>)

-----------------------------------------------------------------------------
(* analyze_recitation_accuracy.                                            *)

\* A slip: the clamp at 0 left out.
ClampAccuracy_no_floor(w) ==
    RatMin(<<100, 1>>, <<(w[2] - w[1]) * 100, w[2]>>)

\* max(0, min(100, (1 - wer) * 100))
ClampAccuracy(w) ==
    RatMax(<<0, 1>>, RatMin(<<100, 1>>, <<(w[2] - w[1]) * 100, w[2]>>))

\* A slip: the expected text compared as it came, only the transcription
\* normalized.
analyze_recitation_accuracy_raw_expected(transcribed, expected) ==
    LET t == normalize_arabic_text(transcribed)
        w == calculate_wer(expected, t)
    IN  [accuracy |-> round(ClampAccuracy(w), 2),
         wer |-> round(w, 4),
         feedback |-> generate_word_feedback(expected, t)]

\* accuracy is kept in units of 1/100 and wer in units of 1/10000: the two
\* roundings the returned dictionary applies.
analyze_recitation_accuracy(transcribed, expected) ==
    LET t == normalize_arabic_text(transcribed)
        e == normalize_arabic_text(expected)
        w == calculate_wer(e, t)
    IN  [accuracy |-> round(ClampAccuracy(w), 2),
         wer |-> round(w, 4),
         feedback |-> generate_word_feedback(e, t)]

-----------------------------------------------------------------------------
(* Bounds and inputs of the scorer's specification.  The expected text is  *)
(* vocalized and spelled with letter variants, as a verse of the Quran is; *)
(* the transcription is plain.  A word that is only a mark leaves a run of *)
(* whitespace behind once it is normalized.                                *)

MaxWords == 3

ExpectedWords == {<<BEH, FATHA>>, <<ALEF_HAMZA_ABOVE>>, <<SEEN>>, <<FATHA>>}
TranscribedWords == {<<BEH>>, <<ALEF>>, <<SEEN>>, <<FATHA>>}

\* ' '.join(ws)
RECURSIVE Join(_)
Join(ws) ==
    IF ws = <<>> THEN <<>>
    ELSE IF Len(ws) = 1 THEN Head(ws)
    ELSE Head(ws) \o <<SPACE>> \o Join(Tail(ws))

ExpectedTexts == {Join(ws) : ws \in SeqsUpTo(ExpectedWords, MaxWords)}
TranscribedTexts == {Join(ws) : ws \in SeqsUpTo(TranscribedWords, MaxWords)}

Init ==
    /\ pc = "submitted"
    /\ text = NoText
    /\ normalized = NoText
    /\ renormalized = NoText
    /\ transcription \in TranscribedTexts
    /\ expected_text \in ExpectedTexts
    /\ wer = <<0, 1>>
    /\ result = NoResult
    /\ accuracy = 0
    /\ duration_seconds = 0
    /\ xp = 0
    /\ handler = NoHandlers
    /\ temp_files = {}
    /\ database = NoDatabase
    /\ daily_goal = <<>>
    /\ now = 0

\* result = analyze_recitation_accuracy(transcription, expected_text); wer is
\* the value of its local variable wer before the dictionary rounds it.
Analyze ==
    /\ pc = "submitted"
    /\ wer' = calculate_wer(normalize_arabic_text(expected_text),
                            normalize_arabic_text(transcription))
    /\ result' = analyze_recitation_accuracy(transcription, expected_text)
    /\ pc' = "analyzed"
    /\ UNCHANGED <<text, normalized, renormalized, transcription,
                   expected_text, accuracy, duration_seconds, xp>>
    /\ UNCHANGED server

Next == Analyze

Spec == Init /\ [][Next]_vars

-----------------------------------------------------------------------------
(* The vocabulary of the scorer's claims.                                  *)

\* The token sequences the scorer compares.
ExpectedTokens == Split(normalize_arabic_text(expected_text))
TranscribedTokens == Split(normalize_arabic_text(transcription))

\* The words a normalized input can hold, and the token sequences over them.
NormWords ==
    {normalize_arabic_text(w) : w \in ExpectedWords \cup TranscribedWords}
        \ {<<>>}
TokenSeqs == SeqsUpTo(NormWords, MaxWords)

\* The sequences one substitution, one deletion or one insertion away.
OneEditFrom(s) ==
    LET n == Len(s)
    IN  ({[s EXCEPT ![i] = w] : i \in 1..n, w \in NormWords} \ {s})
        \cup {SubSeq(s, 1, i - 1) \o SubSeq(s, i + 1, n) : i \in 1..n}
        \cup (IF n < MaxWords
              THEN {SubSeq(s, 1, i) \o <<w>> \o SubSeq(s, i + 1, n) :
                        i \in 0..n, w \in NormWords}
              ELSE {})

\* The sequences that the relation r pairs with s.
Image(r, s) == {p[2] : p \in {q \in r : q[1] = s}}

\* levels[k + 1] holds the pairs <<s, t>> with t at most k edits from s.
RECURSIVE EditLevelsFrom(_)
EditLevelsFrom(levels) ==
    IF Len(levels) = MaxWords + 1 THEN levels
    ELSE LET last == levels[Len(levels)]
             Within(s) == Image(last, s)
         IN  EditLevelsFrom(Append(levels,
                 UNION {{s} \X (Within(s) \cup
                                UNION {OneEditFrom(u) : u \in Within(s)}) :
                        s \in TokenSeqs}))

EditLevels == EditLevelsFrom(<<{<<s, s>> : s \in TokenSeqs}>>)

\* The least number of single-word edits that turn s into t.
MinEdits(s, t) ==
    CHOOSE k \in 0..MaxWords :
        /\ <<s, t>> \in EditLevels[k + 1]
        /\ k > 0 => <<s, t>> \notin EditLevels[k]

-----------------------------------------------------------------------------
(* C1 (as amended): when the normalized expected text has m >= 1 words,    *)
(* calculate_wer returns D / m, with D the least number of word            *)
(* substitutions, insertions and deletions that turn the expected tokens   *)
(* into the transcribed tokens, and analyze_recitation_accuracy reports    *)
(* that quotient rounded to four decimal places.                           *)
C1_WerIsMinEditsOverLength ==
    (pc = "analyzed" /\ Len(ExpectedTokens) >= 1) =>
        LET D == MinEdits(ExpectedTokens, TranscribedTokens)
            m == Len(ExpectedTokens)
        IN  /\ RatEq(wer, <<D, m>>)
            /\ result.wer = RoundHalfEven(D * 10000, m)

(* C1 as stated: analyze_recitation_accuracy reports exactly D / m.        *)
C1_ReportedWerIsExact ==
    (pc = "analyzed" /\ Len(ExpectedTokens) >= 1) =>
        LET D == MinEdits(ExpectedTokens, TranscribedTokens)
            m == Len(ExpectedTokens)
        IN  /\ RatEq(wer, <<D, m>>)
            /\ result.wer * m = D * 10000

C1_Witness ==
    /\ pc = "analyzed"
    /\ Len(ExpectedTokens) = 3
    /\ Len(TranscribedTokens) = 2
    /\ MinEdits(ExpectedTokens, TranscribedTokens) = 2
    /\ result.wer = 6667

-----------------------------------------------------------------------------
Statuses(feedback) == [k \in 1..Len(feedback) |-> feedback[k].status]

\* n copies of x.
Repeat(x, n) == [k \in 1..n |-> x]

C3_AccuracyFromWer ==
    pc = "analyzed" =>
        /\ 0 <= result.accuracy /\ result.accuracy <= 10000
        /\ result.wer <= 10000 => result.accuracy = 10000 - result.wer
        /\ result.wer >= 10000 => result.accuracy = 0

C3_Witness ==
    /\ pc = "analyzed"
    /\ Len(ExpectedTokens) = 1
    /\ Len(TranscribedTokens) = 3
    /\ result.wer = 30000
    /\ result.accuracy = 0

(* C6: when the normalized expected text has no word, the result is         *)
(* wer 0.0, accuracy 100.0 and no feedback if the normalized transcription  *)
(* has no word either, and wer 1.0, accuracy 0.0 if it has any.             *)
C6_EmptyExpected ==
    (pc = "analyzed" /\ Len(ExpectedTokens) = 0) =>
        IF Len(TranscribedTokens) = 0
        THEN /\ result.wer = 0
             /\ result.accuracy = 10000
             /\ result.feedback = <<>>
        ELSE /\ result.wer = 10000
             /\ result.accuracy = 0

C6_Witness ==
    /\ pc = "analyzed"
    /\ expected_text # <<>>
    /\ Len(ExpectedTokens) = 0
    /\ Len(TranscribedTokens) = 3
    /\ result.wer = 10000
    /\ result.accuracy = 0

(* C8: every verdict has one of the four statuses and fields that agree     *)
(* with it: "missing" has no word and the expected token at word_index as   *)
(* expected and suggestion; "extra" has no expected word, no suggestion and *)
(* the transcribed token at word_index as word; "incorrect" has the         *)
(* transcribed token as word and the expected token, a different one, as    *)
(* expected and suggestion; "correct" has word = expected, no suggestion.   *)
C8_VerdictFields ==
    pc = "analyzed" =>
        \A k \in 1..Len(result.feedback) :
            LET v == result.feedback[k]
                e == ExpectedTokens
                t == TranscribedTokens
                i == v.word_index + 1
            IN  CASE v.status = "missing" ->
                        /\ v.word = <<>>
                        /\ i \in 1..Len(e)
                        /\ v.expected = e[i]
                        /\ v.suggestion = Some(e[i])
                  [] v.status = "extra" ->
                        /\ v.expected = <<>>
                        /\ v.suggestion = None
                        /\ i \in 1..Len(t)
                        /\ v.word = t[i]
                  [] v.status = "incorrect" ->
                        /\ i \in 1..Len(e) /\ i \in 1..Len(t)
                        /\ v.word = t[i]
                        /\ v.expected = e[i]
                        /\ v.suggestion = Some(e[i])
                        /\ v.word # v.expected
                  [] v.status = "correct" ->
                        /\ v.word = v.expected
                        /\ v.suggestion = None
                  [] OTHER -> FALSE

C8_Witness ==
    /\ pc = "analyzed"
    /\ {result.feedback[k].status : k \in 1..Len(result.feedback)}
           = {"correct", "incorrect", "missing"}
    /\ result.feedback[3].suggestion = Some(ExpectedTokens[3])

\* s with its k-th element (counting from 0) left out.
Without(s, k) == SubSeq(s, 1, k) \o SubSeq(s, k + 2, Len(s))

PairwiseDistinct(s) ==
    \A a \in 1..Len(s) : \A b \in 1..Len(s) : a # b => s[a] # s[b]

\* What the feedback is after the word at k was dropped from n distinct ones.
CascadeAfterDeletion(n, k) ==
    /\ Statuses(result.feedback) =
           Repeat("correct", k) \o Repeat("incorrect", n - 1 - k)
               \o <<"missing">>
    /\ result.feedback[n].expected = ExpectedTokens[n]

C10_SuffixVerdicts ==
    pc = "analyzed" =>
        LET e == ExpectedTokens
            t == TranscribedTokens
            m == Len(e)
            n == Len(t)
            fb == result.feedback
        IN  /\ (n > m /\ SubSeq(t, 1, m) = e) =>
                   /\ Statuses(fb) =
                          Repeat("correct", m) \o Repeat("extra", n - m)
                   /\ \A k \in (m + 1)..n :
                          fb[k].word = t[k] /\ fb[k].word_index = k - 1
            /\ (n < m /\ SubSeq(e, 1, n) = t) =>
                   /\ Statuses(fb) =
                          Repeat("correct", n) \o Repeat("missing", m - n)
                   /\ \A k \in (n + 1)..m :
                          fb[k].expected = e[k] /\ fb[k].word_index = k - 1

C10_Witness ==
    /\ pc = "analyzed"
    /\ Len(ExpectedTokens) = 1
    /\ Len(TranscribedTokens) = 3
    /\ SubSeq(TranscribedTokens, 1, 1) = ExpectedTokens
    /\ Statuses(result.feedback) = <<"correct", "extra", "extra">>
    /\ TranscribedTokens[2] # TranscribedTokens[3]

-----------------------------------------------------------------------------
\* The text without the marks of the diacritic list.
Letters(t) == SelectSeq(t, LAMBDA c : c \notin diacritics)

\* The classes of letters the normalizer folds into one.
FoldClasses ==
    {{ALEF, ALEF_MADDA, ALEF_HAMZA_ABOVE, ALEF_HAMZA_BELOW, ALEF_WASLA},
     {HEH, TEH_MARBUTA},
     {YEH, ALEF_MAKSURA}}

SameLetter(a, b) == a = b \/ \E class \in FoldClasses : {a, b} \subseteq class

\* y is x up to marks inserted or deleted and letters replaced by letters
\* of their fold class.
SurfaceVariantOf(y, x) ==
    /\ Len(Letters(y)) = Len(Letters(x))
    /\ \A i \in 1..Len(Letters(x)) : SameLetter(Letters(y)[i], Letters(x)[i])

AllCorrect(feedback) ==
    \A k \in 1..Len(feedback) : feedback[k].status = "correct"

(* C11: when the transcription differs from the expected text only by      *)
(* marks of the diacritic list inserted or deleted and by letters replaced *)
(* within their fold class, the result is wer 0.0, accuracy 100.0 and      *)
(* only "correct" verdicts.                                                *)
C11_SurfaceVariation ==
    (pc = "analyzed" /\ SurfaceVariantOf(transcription, expected_text)) =>
        /\ result.wer = 0
        /\ result.accuracy = 10000
        /\ AllCorrect(result.feedback)

C11_Witness ==
    /\ pc = "analyzed"
    /\ expected_text = <<BEH, FATHA, SPACE, ALEF_HAMZA_ABOVE>>
    /\ transcription = <<BEH, SPACE, ALEF>>
    /\ SurfaceVariantOf(transcription, expected_text)
    /\ result.wer = 0
    /\ Statuses(result.feedback) = <<"correct", "correct">>

(* C12: scoring a non-empty text against itself gives wer 0.0, accuracy    *)
(* 100.0 and one "correct" verdict for each word of the normalized text.   *)
C12_ExactMatch ==
    (pc = "analyzed" /\ transcription = expected_text
                     /\ expected_text # <<>>) =>
        /\ result.wer = 0
        /\ result.accuracy = 10000
        /\ Len(result.feedback) = Len(ExpectedTokens)
        /\ AllCorrect(result.feedback)

C12_Witness ==
    /\ pc = "analyzed"
    /\ transcription = expected_text
    /\ expected_text = <<SEEN, SPACE, FATHA, SPACE, SEEN>>
    /\ result.accuracy = 10000
    /\ Statuses(result.feedback) = <<"correct", "correct">>

(* C25: with m expected and n transcribed tokens the feedback has          *)
(* max(m, n) entries, and its k-th entry, counted from 0, has              *)
(* word_index = k.                                                         *)
C25_FeedbackLength ==
    pc = "analyzed" =>
        /\ Len(result.feedback)
               = Max2(Len(ExpectedTokens), Len(TranscribedTokens))
        /\ \A k \in 1..Len(result.feedback) :
               result.feedback[k].word_index = k - 1

C25_Witness ==
    /\ pc = "analyzed"
    /\ Len(ExpectedTokens) = 1
    /\ Len(TranscribedTokens) = 3
    /\ [k \in 1..3 |-> result.feedback[k].word_index] = <<0, 1, 2>>
    /\ Statuses(result.feedback) = <<"incorrect", "extra", "extra">>

\* The verdicts of the feedback that are not "correct".
NotCorrect(feedback) ==
    {k \in 1..Len(feedback) : feedback[k].status # "correct"}

C27_WerBounds ==
    (pc = "analyzed" /\ Len(ExpectedTokens) >= 1) =>
        LET m == Len(ExpectedTokens)
            n == Len(TranscribedTokens)
        IN  /\ (Max2(m, n) - Min2(m, n)) * wer[2] <= wer[1] * m
            /\ wer[1] * m <= Max2(m, n) * wer[2]
            /\ n <= m => wer[1] <= wer[2]

\* Both bounds met at once: one expected word, three others heard.
C27_Witness ==
    /\ pc = "analyzed"
    /\ Len(ExpectedTokens) = 1
    /\ Len(TranscribedTokens) = 3
    /\ wer[1] = 3 * wer[2]

-----------------------------------------------------------------------------
(* Whole numbers beyond 32-bit integers: the sequence of the               *)
(* number's digits in base 2^DigitBits, lowest first, the highest not 0.   *)

DigitBits == 13
Base == 2^DigitBits

RECURSIVE Big(_)
Big(n) == IF n = 0 THEN <<>> ELSE <<n % Base>> \o Big(n \div Base)

RECURSIVE Small(_)
Small(M) == IF M = <<>> THEN 0 ELSE Head(M) + Base * Small(Tail(M))

Digit(M, j) == IF j \in 1..Len(M) THEN M[j] ELSE 0

\* M without its highest digits that are 0.
Trim(M) ==
    LET used == {j \in 1..Len(M) : M[j] # 0}
    IN  IF used = {} THEN <<>>
        ELSE SubSeq(M, 1, CHOOSE j \in used : \A i \in used : i <= j)

\* The bit of M that counts 2^i.
Bit(M, i) == (Digit(M, (i \div DigitBits) + 1) \div 2^(i % DigitBits)) % 2

\* The number of bits of M, 0 for 0.
BitLength(M) ==
    IF M = <<>> THEN 0
    ELSE (Len(M) - 1) * DigitBits
             + (CHOOSE w \in 1..DigitBits :
                    2^(w - 1) <= M[Len(M)] /\ M[Len(M)] < 2^w)

\* floor(M / 2^k)
ShiftRight(M, k) ==
    LET a == k \div DigitBits
        b == k % DigitBits
    IN  Trim([j \in 1..Max2(0, Len(M) - a) |->
                 (Digit(M, j + a) \div 2^b)
                     + (Digit(M, j + a + 1) % 2^b) * 2^(DigitBits - b)])

\* M * 2^k
ShiftLeft(M, k) ==
    LET a == k \div DigitBits
        b == k % DigitBits
    IN  Trim([j \in 1..(Len(M) + a + 1) |->
                 IF j <= a THEN 0
                 ELSE ((Digit(M, j - a) * 2^b) % Base)
                          + (Digit(M, j - a - 1) \div 2^(DigitBits - b))])

\* M * c + carry for c, carry < 2^17
RECURSIVE TimesSmall(_, _, _)
TimesSmall(M, c, carry) ==
    IF M = <<>> THEN Big(carry)
    ELSE <<(Head(M) * c + carry) % Base>>
             \o TimesSmall(Tail(M), c, (Head(M) * c + carry) \div Base)

\* M + N
RECURSIVE Plus(_, _, _)
Plus(M, N, carry) ==
    IF M = <<>> /\ N = <<>> THEN Big(carry)
    ELSE LET sum == Digit(M, 1) + Digit(N, 1) + carry
         IN  <<sum % Base>>
                 \o Plus(IF M = <<>> THEN M ELSE Tail(M),
                         IF N = <<>> THEN N ELSE Tail(N), sum \div Base)

\* <<floor((rem * Base^Len(M) + M) / q), the remainder>> for rem < q < 2^17;
\* the quotient's digits as many as M's, highest first.
RECURSIVE DivideFrom(_, _, _, _)
DivideFrom(M, q, rem, quotient) ==
    IF M = <<>> THEN <<quotient, rem>>
    ELSE LET v == rem * Base + M[Len(M)]
         IN  DivideFrom(SubSeq(M, 1, Len(M) - 1), q, v % q,
                        <<v \div q>> \o quotient)

\* <<floor(M / q), M mod q>>
DivMod(M, q) ==
    LET r == DivideFrom(M, q, 0, <<>>) IN <<Trim(r[1]), r[2]>>

-----------------------------------------------------------------------------
(* Python floats (IEEE 754 binary64), as far as calculate_xp_reward needs  *)
(* them.  A positive float is <<m, e>> with value m * 2^e, m a whole       *)
(* number of exactly MantissaBits bits; 0.0 is FloatZero.  Every operation *)
(* takes the exact result and rounds it to the nearest float, ties to the  *)
(* one whose last bit is 0.                                                *)

MantissaBits == 53

FloatZero == <<<<>>, 0>>
FloatOne == <<ShiftLeft(Big(1), MantissaBits - 1), 1 - MantissaBits>>
FloatTwo == <<ShiftLeft(Big(1), MantissaBits - 1), 2 - MantissaBits>>

\* The float nearest to M * 2^e, or to a value just above it when sticky.
RoundNearestEven(M, e, sticky) ==
    LET k == BitLength(M) - MantissaBits
    IN  IF k <= 0 THEN <<ShiftLeft(M, -k), e + k>>
        ELSE LET guard == Bit(M, k - 1)
                 rest == sticky \/ \E i \in 0..(k - 2) : Bit(M, i) = 1
                 up == guard = 1 /\ (rest \/ Bit(M, k) = 1)
                 m == IF up THEN Plus(ShiftRight(M, k), Big(1), 0)
                            ELSE ShiftRight(M, k)
             IN  IF BitLength(m) > MantissaBits
                 THEN <<ShiftRight(m, 1), e + k + 1>>
                 ELSE <<m, e + k>>

IntBitLength(n) == BitLength(Big(n))

\* n / q for two ints n >= 0 and q > 0: the quotient to two bits more than
\* a float holds, and whether a remainder is left.
FloatDiv(n, q) ==
    IF n = 0 THEN FloatZero
    ELSE LET s == MantissaBits + 1 + IntBitLength(q)
             qr == DivMod(ShiftLeft(Big(n), s), q)
         IN  RoundNearestEven(qr[1], -s, qr[2] # 0)

\* x * 0.5
FloatHalf(x) == IF x = FloatZero THEN x ELSE <<x[1], x[2] - 1>>

\* 1.0 + x for 0 <= x < 2^(MantissaBits - 1)
FloatAddOne(x) ==
    IF x = FloatZero THEN FloatOne
    ELSE RoundNearestEven(Plus(ShiftLeft(Big(1), -x[2]), x[1], 0), x[2], FALSE)

\* min(2.0, x) for x > 0: x when x < 2.0.
FloatMinTwo(x) == IF x[2] + MantissaBits <= 1 THEN x ELSE FloatTwo

\* c * x for a float c that is a whole number from 1 to 2^17, and x > 0.
FloatTimes(c, x) == RoundNearestEven(TimesSmall(x[1], c, 0), x[2], FALSE)

\* int(x) for 0 <= x < 2^31
FloatInt(x) ==
    IF x = FloatZero THEN 0
    ELSE IF x[2] >= 0 THEN Small(ShiftLeft(x[1], x[2]))
    ELSE Small(ShiftRight(x[1], -x[2]))

-----------------------------------------------------------------------------
(* calculate_xp_reward.  accuracy counts 1/100 (95.0 is 9500); the         *)
(* multiplier counts 1/10 (3.0 is 30).                                     *)

base_xp == 10

\* A slip: the multipliers 2.5 and 1.5 in each other's tier.
accuracy_multiplier_tiers_swapped(a) ==
    IF a >= 95 * 100 THEN 30
    ELSE IF a >= 90 * 100 THEN 15
    ELSE IF a >= 80 * 100 THEN 20
    ELSE IF a >= 70 * 100 THEN 25
    ELSE IF a >= 50 * 100 THEN 10
    ELSE 5

\* A slip: the highest tier closed at 100.
accuracy_multiplier_closed_top(a) ==
    IF a >= 95 * 100 /\ a <= 100 * 100 THEN 30
    ELSE IF a >= 90 * 100 THEN 25
    ELSE IF a >= 80 * 100 THEN 20
    ELSE IF a >= 70 * 100 THEN 15
    ELSE IF a >= 50 * 100 THEN 10
    ELSE 5

accuracy_multiplier(a) ==
    IF a >= 95 * 100 THEN 30
    ELSE IF a >= 90 * 100 THEN 25
    ELSE IF a >= 80 * 100 THEN 20
    ELSE IF a >= 70 * 100 THEN 15
    ELSE IF a >= 50 * 100 THEN 10
    ELSE 5

\* min(2.0, 1.0 + (duration_seconds / 60) * 0.5)
duration_factor(d) == FloatMinTwo(FloatAddOne(FloatHalf(FloatDiv(d, 60))))

\* A slip: the duration factor without its 1.0 and the result without its
\* floor of 5.
calculate_xp_reward_bare(a, d) ==
    LET scaled == (base_xp * accuracy_multiplier(a)) \div 10
    IN  IF d = 0 THEN 0
        ELSE FloatInt(FloatTimes(scaled,
                                 FloatMinTwo(FloatHalf(FloatDiv(d, 60)))))

\* base_xp * accuracy_multiplier is a whole number, exact as a float.
calculate_xp_reward(a, d) ==
    LET scaled == (base_xp * accuracy_multiplier(a)) \div 10
        earned == FloatInt(FloatTimes(scaled, duration_factor(d)))
    IN  Max2(5, earned)

-----------------------------------------------------------------------------
(* Bounds and inputs of the reward's specification: every fifth whole     *)
(* accuracy from 0 to 100, the values 1 and 0.01 below each tier's         *)
(* threshold, and values below 0 and above 100, which the function         *)
(* accepts as well.                                                        *)

MaxDuration == 130

Thresholds == {50, 70, 80, 90, 95}

InRange == 0..(100 * 100)

OutOfRangeInputs == {-(50 * 100), -1, 100 * 100 + 1, 200 * 100}

AccuracyInputs ==
    {100 * 5 * p : p \in 0..20}
        \cup {100 * (p - 1) : p \in Thresholds}
        \cup {100 * p - 1 : p \in Thresholds}
        \cup OutOfRangeInputs

InitReward ==
    /\ pc = "scored"
    /\ text = NoText
    /\ normalized = NoText
    /\ renormalized = NoText
    /\ transcription = NoText
    /\ expected_text = NoText
    /\ wer = <<0, 1>>
    /\ result = NoResult
    /\ accuracy \in AccuracyInputs
    /\ duration_seconds \in 0..MaxDuration
    /\ xp = 0
    /\ handler = NoHandlers
    /\ temp_files = {}
    /\ database = NoDatabase
    /\ daily_goal = <<>>
    /\ now = 0

\* xp = calculate_xp_reward(accuracy, duration_seconds)
Reward ==
    /\ pc = "scored"
    /\ xp' = calculate_xp_reward(accuracy, duration_seconds)
    /\ pc' = "rewarded"
    /\ UNCHANGED <<text, normalized, renormalized, transcription,
                   expected_text, wer, result, accuracy, duration_seconds>>
    /\ UNCHANGED server

NextReward == Reward

SpecReward == InitReward /\ [][NextReward]_vars

\* The multiplier of the highest tier the accuracy reaches, in 1/10.
TierMultiplier(a) ==
    CASE a >= 9500 -> 30
      [] a >= 9000 /\ a < 9500 -> 25
      [] a >= 8000 /\ a < 9000 -> 20
      [] a >= 7000 /\ a < 8000 -> 15
      [] a >= 5000 /\ a < 7000 -> 10
      [] a < 5000 -> 5

\* max(5, floor(10 * M * F)) with F = min(2, 1 + d / 120), in exact
\* arithmetic: 10 * M * F = m * min(240, 120 + d) / 120 for M = m / 10.
ExactReward(a, d) ==
    Max2(5, (TierMultiplier(a) * Min2(240, 120 + d)) \div 120)

(* C7: for every accuracy in [0, 100] and duration d >= 0 the reward is    *)
(* max(5, floor(10 * M * F)), M the multiplier of the highest tier the     *)
(* accuracy reaches and F = min(2, 1 + d / 120); so the reward for any     *)
(* d >= 120 is the reward for d = 120.                                     *)
C7_RewardFormula ==
    (pc = "rewarded" /\ accuracy \in InRange) =>
        /\ xp = ExactReward(accuracy, duration_seconds)
        /\ duration_seconds >= 120 => xp = calculate_xp_reward(accuracy, 120)

(* C13: for a fixed duration the reward does not decrease with the        *)
(* accuracy: no accuracy of [0, 100] below the one rewarded earns more,    *)
(* and none above it earns less.                                           *)
C13_MonotoneInAccuracy ==
    (pc = "rewarded" /\ accuracy \in InRange) =>
        \A a \in AccuracyInputs \cap InRange :
            /\ a <= accuracy =>
                   calculate_xp_reward(a, duration_seconds) <= xp
            /\ a >= accuracy =>
                   calculate_xp_reward(a, duration_seconds) >= xp

C13_Witness ==
    /\ pc = "rewarded"
    /\ accuracy = 95 * 100
    /\ duration_seconds = 80
    /\ xp = 49
    /\ calculate_xp_reward(95 * 100 - 1, duration_seconds) = 41

(* C14: the reward is never less than 5, whatever the accuracy and the     *)
(* duration, and it is 5 for accuracy 0 and duration 0.                    *)
C14_RewardFloor ==
    pc = "rewarded" =>
        /\ xp \in Nat
        /\ xp >= 5
        /\ (accuracy = 0 /\ duration_seconds = 0) => xp = 5

C14_Witness ==
    /\ pc = "rewarded"
    /\ accuracy = 0
    /\ duration_seconds = 0
    /\ xp = 5

(* C15: an accuracy below 0 is rewarded as accuracy 0 is, and one above    *)
(* 100 as accuracy 100 is, for every duration.                             *)
C15_OutOfRangeAccuracy ==
    pc = "rewarded" =>
        /\ accuracy < 0 => xp = calculate_xp_reward(0, duration_seconds)
        /\ accuracy > 100 * 100 =>
               xp = calculate_xp_reward(100 * 100, duration_seconds)

C15_Witness ==
    /\ pc = "rewarded"
    /\ accuracy = 200 * 100
    /\ duration_seconds = 60
    /\ xp = 45

-----------------------------------------------------------------------------
(* C4: normalize_arabic_text is idempotent: normalizing an already         *)
(* normalized text gives the same text, for every input text.              *)
C4_Idempotent == pc = "twice" => renormalized = normalized

(* C5: the text normalize_arabic_text returns holds none of the twelve     *)
(* diacritic code points, for every input text.                            *)
C5_NoDiacritics ==
    pc \in {"once", "twice"} =>
        \A i \in 1..Len(normalized) : normalized[i] \notin diacritics

-----------------------------------------------------------------------------
(* The endpoints of api/v1/endpoints/recitation.py.  A handler runs from   *)
(* one await to the next in one step, and the handlers of the requests in  *)
(* flight interleave at their awaits.                                      *)

\* The engine's variables, which the endpoints' steps leave alone.
engine == <<pc, text, normalized, renormalized, transcription, expected_text,
            wer, result, accuracy, duration_seconds, xp>>

EngineIdle ==
    /\ pc = "serving"
    /\ text = NoText
    /\ normalized = NoText
    /\ renormalized = NoText
    /\ transcription = NoText
    /\ expected_text = NoText
    /\ wer = <<0, 1>>
    /\ result = NoResult
    /\ accuracy = 0
    /\ duration_seconds = 0
    /\ xp = 0

\* The texts a speech model may decode.
Transcripts == {<<ALEF>>, <<BEH>>, <<BEH, SPACE, SEEN>>}

\* The dictionaries transcribe_audio and transcribe_audio_openai return;
\* confidence counts 1/100.
transcribe_audio(decoded) ==
    [transcription |-> Strip(decoded), confidence |-> 85,
     word_timestamps |-> None]
transcribe_audio_openai(decoded) ==
    [transcription |-> Strip(decoded), confidence |-> 90,
     word_timestamps |-> None]

TranscriptionResponse(r) ==
    [transcription |-> r.transcription, confidence |-> r.confidence,
     word_timestamps |-> r.word_timestamps]

\* A transcriber is "not_called", or has "returned" or "raised".
ReceivedTranscribe ==
    [pc |-> "received", primary |-> "not_called", fallback |-> "not_called",
     primary_result |-> None, fallback_result |-> None,
     status |-> 0, data |-> None]

InitTranscribe ==
    /\ EngineIdle
    /\ handler = [r \in Requests |-> ReceivedTranscribe]
    /\ temp_files = {}
    /\ database = NoDatabase
    /\ daily_goal = <<>>
    /\ now = 0

\* Lines 46-50: the content type is checked; 400 when it is not audio.
ValidateUpload(r) ==
    /\ handler[r].pc = "received"
    /\ \E is_audio \in BOOLEAN :
           handler' = [handler EXCEPT ![r] =
               IF is_audio THEN [@ EXCEPT !.pc = "validated"]
               ELSE [@ EXCEPT !.pc = "done", !.status = 400]]
    /\ UNCHANGED <<temp_files, database, daily_goal, now, engine>>

\* Lines 53-56: the upload is written to a temporary file that stays.
SaveUpload(r) ==
    /\ handler[r].pc = "validated"
    /\ temp_files' = temp_files \cup {r}
    /\ handler' = [handler EXCEPT ![r].pc = "saved"]
    /\ UNCHANGED <<database, daily_goal, now, engine>>

\* A slip: the primary's failure answered at once, as /submit does.
TranscribePrimary_no_fallback(r) ==
    /\ handler[r].pc = "saved"
    /\ \/ \E decoded \in Transcripts :
              handler' = [handler EXCEPT ![r] =
                  [@ EXCEPT !.primary = "returned",
                            !.primary_result = Some(transcribe_audio(decoded)),
                            !.status = 200,
                            !.data = Some(TranscriptionResponse(
                                              transcribe_audio(decoded))),
                            !.pc = "cleanup"]]
       \/ handler' = [handler EXCEPT ![r] =
              [@ EXCEPT !.primary = "raised", !.status = 500,
                        !.pc = "cleanup"]]
    /\ UNCHANGED <<temp_files, database, daily_goal, now, engine>>

\* Lines 58-70: transcribe_audio returns and the response is built from its
\* result, or it raises and the except clause is entered.
TranscribePrimary(r) ==
    /\ handler[r].pc = "saved"
    /\ \/ \E decoded \in Transcripts :
              handler' = [handler EXCEPT ![r] =
                  [@ EXCEPT !.primary = "returned",
                            !.primary_result = Some(transcribe_audio(decoded)),
                            !.status = 200,
                            !.data = Some(TranscriptionResponse(
                                              transcribe_audio(decoded))),
                            !.pc = "cleanup"]]
       \/ handler' = [handler EXCEPT ![r] =
              [@ EXCEPT !.primary = "raised", !.pc = "fallback"]]
    /\ UNCHANGED <<temp_files, database, daily_goal, now, engine>>

\* Lines 71-86: transcribe_audio_openai returns and the response is built
\* from its result, or it raises too and the answer is 500.
TranscribeFallback(r) ==
    /\ handler[r].pc = "fallback"
    /\ \/ \E decoded \in Transcripts :
              handler' = [handler EXCEPT ![r] =
                  [@ EXCEPT !.fallback = "returned",
                            !.fallback_result =
                                Some(transcribe_audio_openai(decoded)),
                            !.status = 200,
                            !.data = Some(TranscriptionResponse(
                                              transcribe_audio_openai(decoded))),
                            !.pc = "cleanup"]]
       \/ handler' = [handler EXCEPT ![r] =
              [@ EXCEPT !.fallback = "raised", !.status = 500,
                        !.pc = "cleanup"]]
    /\ UNCHANGED <<temp_files, database, daily_goal, now, engine>>

\* Lines 87-90, the finally clause: the temporary file is unlinked.
RemoveUpload(r) ==
    /\ handler[r].pc = "cleanup"
    /\ temp_files' = temp_files \ {r}
    /\ handler' = [handler EXCEPT ![r].pc = "done"]
    /\ UNCHANGED <<database, daily_goal, now, engine>>

transcribe_recitation(r) ==
    \/ ValidateUpload(r)
    \/ SaveUpload(r)
    \/ TranscribePrimary(r)
    \/ TranscribeFallback(r)
    \/ RemoveUpload(r)

NextTranscribe == \E r \in Requests : transcribe_recitation(r)

SpecTranscribe == InitTranscribe /\ [][NextTranscribe]_vars

\* The request has left the try statement of lines 58-90.
Answered(h) == h.pc \in {"cleanup", "done"} /\ h.status # 400

-----------------------------------------------------------------------------
(* submit_recitation.  Each request has its own session (get_db_session):  *)
(* what it selects is a copy of the committed row, what it changes stays   *)
(* in the session until db.commit() writes it, and an exception that       *)
(* leaves the handler rolls the uncommitted changes back.                  *)

\* The ayahs table, and the ayah ids a request may name.
ayahs == [id \in {1} |-> [text |-> <<ALEF_HAMZA_ABOVE>>]]
AyahIds == {1, 2}

\* len(content) of the uploads: none, a minute and two minutes of audio.
ContentLengths == {0, 4000 * 60, 4000 * 120}

\* The user's rows before the requests: user_progress, and today's daily_xp.
InitialProgress == [total_xp |-> 100, total_recitation_seconds |-> 0]
InitialDailyXP ==
    [id |-> 0, xp_earned |-> 40, practice_xp |-> 10, goal_target |-> 50,
     goal_completed |-> FALSE]

ReceivedSubmit ==
    [pc |-> "received", primary |-> "not_called", fallback |-> "not_called",
     status |-> 0, data |-> None, ayah |-> None, content_length |-> 0,
     transcription_result |-> None, accuracy_result |-> None,
     duration_seconds |-> 0, xp_earned |-> 0, recitation |-> None,
     progress |-> None, daily_xp |-> None]

InitSubmit ==
    /\ EngineIdle
    /\ handler = [r \in Requests |-> ReceivedSubmit]
    /\ temp_files = {}
    /\ \E progress \in {None, Some(InitialProgress)},
          today \in {{}, {InitialDailyXP}} :
           database = [recitation_results |-> {}, user_progress |-> progress,
                       daily_xp |-> today]
    /\ daily_goal = None
    /\ now = 0

\* Lines 139-147: the ayah is selected; 404 when there is none.
FindAyah(r) ==
    /\ handler[r].pc = "received"
    /\ \E ayah_id \in AyahIds :
           handler' = [handler EXCEPT ![r] =
               IF ayah_id \in DOMAIN ayahs
               THEN [@ EXCEPT !.ayah = Some(ayahs[ayah_id]), !.pc = "found"]
               ELSE [@ EXCEPT !.status = 404, !.pc = "done"]]
    /\ UNCHANGED <<temp_files, database, daily_goal, now, engine>>

\* Lines 149-160: 400 when the upload is not audio; else it is written to a
\* temporary file that stays.
ReceiveUpload(r) ==
    /\ handler[r].pc = "found"
    /\ \/ /\ handler' = [handler EXCEPT ![r] =
                 [@ EXCEPT !.status = 400, !.pc = "done"]]
          /\ UNCHANGED temp_files
       \/ \E length \in ContentLengths :
              /\ handler' = [handler EXCEPT ![r] =
                     [@ EXCEPT !.content_length = length, !.pc = "saved"]]
              /\ temp_files' = temp_files \cup {r}
    /\ UNCHANGED <<database, daily_goal, now, engine>>

\* Lines 162-164 and 263-267: transcribe_audio returns, or it raises and
\* the except clause answers 500.
SubmitTranscribe(r) ==
    /\ handler[r].pc = "saved"
    /\ \/ \E decoded \in Transcripts :
              handler' = [handler EXCEPT ![r] =
                  [@ EXCEPT !.primary = "returned",
                            !.transcription_result =
                                Some(transcribe_audio(decoded)),
                            !.pc = "transcribed"]]
       \/ handler' = [handler EXCEPT ![r] =
              [@ EXCEPT !.primary = "raised", !.status = 500,
                        !.pc = "cleanup"]]
    /\ UNCHANGED <<temp_files, database, daily_goal, now, engine>>

\* Lines 166-200: the score, the reward, the new RecitationResult added to
\* the session, and the user's progress row selected.
Score(r) ==
    /\ handler[r].pc = "transcribed"
    /\ LET h == handler[r]
           said == h.transcription_result[1].transcription
           scored == analyze_recitation_accuracy(said, h.ayah[1].text)
           seconds == h.content_length \div 4000
           earned == calculate_xp_reward(scored.accuracy, seconds)
       IN  handler' = [handler EXCEPT ![r] =
               [@ EXCEPT !.accuracy_result = Some(scored),
                         !.duration_seconds = seconds,
                         !.xp_earned = earned,
                         !.recitation =
                             Some([id |-> r, accuracy |-> scored.accuracy,
                                   wer |-> scored.wer, xp_earned |-> earned,
                                   duration_ms |-> seconds * 1000]),
                         !.progress = database.user_progress,
                         !.pc = "scored"]]
    /\ UNCHANGED <<temp_files, database, daily_goal, now, engine>>

\* Lines 202-214: the selected progress object is credited, and today's
\* daily_xp row is selected; scalar_one_or_none raises on two rows.
ReadDaily(r) ==
    /\ handler[r].pc = "scored"
    /\ LET h == handler[r]
       IN  handler' = [handler EXCEPT ![r] =
               IF h.progress = None THEN [@ EXCEPT !.pc = "ready"]
               ELSE IF Cardinality(database.daily_xp) > 1
               THEN [@ EXCEPT !.status = 500, !.pc = "cleanup"]
               ELSE [@ EXCEPT
                       !.progress = Some(
                           [total_xp |-> h.progress[1].total_xp + h.xp_earned,
                            total_recitation_seconds |->
                                h.progress[1].total_recitation_seconds
                                    + h.duration_seconds]),
                       !.daily_xp =
                           IF database.daily_xp = {} THEN None
                           ELSE Some(CHOOSE row \in database.daily_xp : TRUE),
                       !.pc = "ready"]]
    /\ UNCHANGED <<temp_files, database, daily_goal, now, engine>>

\* Lines 216-228: the selected daily_xp object credited, or a new one.
CreditedDaily(h, r) ==
    IF h.daily_xp # None
    THEN LET row == h.daily_xp[1]
             total == row.xp_earned + h.xp_earned
         IN  [row EXCEPT !.xp_earned = total,
                         !.practice_xp = @ + h.xp_earned,
                         !.goal_completed =
                             IF total >= row.goal_target THEN TRUE ELSE @]
    ELSE [id |-> r, xp_earned |-> h.xp_earned, practice_xp |-> h.xp_earned,
          goal_target |-> 50, goal_completed |-> FALSE]

\* The UPDATE of the flush: the attributes of the object that differ from
\* what was selected are written over the committed row, the others are
\* left as another session may have committed them.
Flushed(row, selected, changed) ==
    [f \in DOMAIN row |->
        IF changed[f] # selected[f] THEN changed[f] ELSE row[f]]

\* Lines 216-230: db.commit() inserts the new rows and updates the rows of
\* the changed objects.
Commit(r) ==
    /\ handler[r].pc = "ready"
    /\ LET h == handler[r]
           credited == CreditedDaily(h, r)
           selected == [total_xp |-> h.progress[1].total_xp - h.xp_earned,
                        total_recitation_seconds |->
                            h.progress[1].total_recitation_seconds
                                - h.duration_seconds]
       IN  database' =
               IF h.progress = None
               THEN [database EXCEPT
                        !.recitation_results = @ \cup {h.recitation[1]}]
               ELSE [recitation_results |->
                         database.recitation_results \cup {h.recitation[1]},
                     user_progress |->
                         Some(Flushed(database.user_progress[1], selected,
                                      h.progress[1])),
                     daily_xp |->
                         IF h.daily_xp = None
                         THEN database.daily_xp \cup {credited}
                         ELSE {IF row.id = credited.id
                               THEN Flushed(row, h.daily_xp[1], credited)
                               ELSE row : row \in database.daily_xp}]
    /\ handler' = [handler EXCEPT ![r].pc = "committed"]
    /\ UNCHANGED <<temp_files, daily_goal, now, engine>>

\* Lines 231-267: the response is built; RecitationResultResponse refuses a
\* wer above 1 (schemas/recitation.py, line 100), and the except clause
\* then answers 500.
Respond(r) ==
    /\ handler[r].pc = "committed"
    /\ LET row == handler[r].recitation[1]
       IN  handler' = [handler EXCEPT ![r] =
               IF row.wer <= 10000 /\ row.accuracy <= 10000
               THEN [@ EXCEPT !.status = 200, !.data = Some(row),
                              !.pc = "cleanup"]
               ELSE [@ EXCEPT !.status = 500, !.pc = "cleanup"]]
    /\ UNCHANGED <<temp_files, database, daily_goal, now, engine>>

\* Lines 268-271, the finally clause: the temporary file is unlinked.
RemoveSubmittedUpload(r) ==
    /\ handler[r].pc = "cleanup"
    /\ temp_files' = temp_files \ {r}
    /\ handler' = [handler EXCEPT ![r].pc = "done"]
    /\ UNCHANGED <<database, daily_goal, now, engine>>

\* gamification.py, lines 111-148: GET /daily-goal selects today's daily_xp
\* row of the user and answers with what it holds, or with the default goal
\* when there is none; scalar_one_or_none raises on two rows, which nothing
\* catches.
get_daily_goal ==
    /\ daily_goal' =
           IF Cardinality(database.daily_xp) > 1
           THEN Some([status |-> 500, data |-> None])
           ELSE IF database.daily_xp = {}
           THEN Some([status |-> 200,
                      data |-> Some([target_xp |-> 50, current_xp |-> 0,
                                     completed |-> FALSE])])
           ELSE LET row == CHOOSE x \in database.daily_xp : TRUE
                IN  Some([status |-> 200,
                          data |-> Some([target_xp |-> row.goal_target,
                                         current_xp |-> row.xp_earned,
                                         completed |-> row.goal_completed])])
    /\ UNCHANGED <<handler, temp_files, database, now, engine>>

submit_recitation(r) ==
    \/ FindAyah(r)
    \/ ReceiveUpload(r)
    \/ SubmitTranscribe(r)
    \/ Score(r)
    \/ ReadDaily(r)
    \/ Commit(r)
    \/ Respond(r)
    \/ RemoveSubmittedUpload(r)

NextSubmit ==
    \/ \E r \in Requests : submit_recitation(r)
    \/ get_daily_goal

SpecSubmit == InitSubmit /\ [][NextSubmit]_vars

\* The request has left the try statement of lines 162-271.
Left(h) == h.pc \in {"cleanup", "done"} /\ h.status \notin {400, 404}

(* C17: in /submit a failure of the primary transcriber triggers the       *)
(* fallback transcriber, and the submission fails because of the           *)
(* transcription only if both transcribers fail.                           *)
C17_SubmitFallsBack ==
    \A r \in Requests :
        (Left(handler[r]) /\ handler[r].primary = "raised") =>
            handler[r].fallback = "raised"

\* The rows the request r has committed.
RowsOf(r) == {row \in database.recitation_results : row.id = r}

(* C18: every wer that submit_recitation computes, stores and returns is   *)
(* between 0 and 1, the bound RecitationResultResponse declares, so the    *)
(* response of a committed submission is always built.                     *)
C18_WerWithinDeclaredBound ==
    /\ \A row \in database.recitation_results :
           0 <= row.wer /\ row.wer <= 10000
    /\ \A r \in Requests :
           /\ handler[r].recitation # None =>
                  handler[r].recitation[1].wer <= 10000
           /\ (Left(handler[r]) /\ RowsOf(r) # {}) => handler[r].status = 200

(* C19: a submission that ends with an error response has committed no     *)
(* RecitationResult, and when every submission that was begun has ended    *)
(* with one the user's progress and daily_xp rows are as they were.        *)
C19_AllOrNothing ==
    /\ \A r \in Requests : handler[r].status >= 400 => RowsOf(r) = {}
    /\ (\A r \in Requests :
            \/ handler[r].pc = "received"
            \/ handler[r].pc = "done" /\ handler[r].status >= 400) =>
           /\ database.user_progress \in {None, Some(InitialProgress)}
           /\ database.daily_xp \subseteq {InitialDailyXP}

RECURSIVE SumXp(_)
SumXp(rows) ==
    IF rows = {} THEN 0
    ELSE LET row == CHOOSE x \in rows : TRUE
         IN  row.xp_earned + SumXp(rows \ {row})

(* C20: once the submissions of a user with a progress row have all        *)
(* succeeded, total_xp is its first value plus the xp_earned of the rows   *)
(* they created, and so are xp_earned and practice_xp of the one daily_xp  *)
(* row of today, however the submissions overlapped.                       *)
C20_XpConserved ==
    (/\ database.user_progress # None
     /\ \A r \in Requests :
            handler[r].pc = "done" /\ handler[r].status = 200) =>
        LET earned == SumXp(database.recitation_results)
        IN  /\ database.user_progress[1].total_xp
                   = InitialProgress.total_xp + earned
            /\ \E first \in {0, InitialDailyXP.xp_earned} :
                   \E row \in database.daily_xp :
                       /\ database.daily_xp = {row}
                       /\ row.xp_earned = first + earned

\* A submission has succeeded: its rows are committed and it answered 200.
Succeeded(h) == h.status = 200

(* C21: after a successful submission today's daily_xp row of the user has *)
(* goal_completed exactly when its xp_earned has reached goal_target, also *)
(* when the submission created the row, and GET /daily-goal reports it so. *)
C21_GoalCompleted ==
    (\E r \in Requests : Succeeded(handler[r])) =>
        /\ \A row \in database.daily_xp :
               row.goal_completed <=> row.xp_earned >= row.goal_target
        /\ (daily_goal # None /\ daily_goal[1].data # None) =>
               LET goal == daily_goal[1].data[1]
               IN  goal.completed <=> goal.current_xp >= goal.target_xp

(* C22: there is at most one daily_xp row of the user for today, however   *)
(* the submissions overlap, so that no lookup of the row meets several.    *)
C22_OneDailyRow ==
    /\ Cardinality(database.daily_xp) <= 1
    /\ daily_goal # None => daily_goal[1].status = 200

-----------------------------------------------------------------------------
(* auth.py: refresh_token and logout.  A token is what jwt.encode signed:  *)
(* its type, its subject, its exp and, for a refresh token, its jti.       *)
(* Garbage is a string jwt.decode refuses.  Time is counted in days; the   *)
(* exp of an access token plays no part, since verify_refresh_token        *)
(* refuses the token either way.                                           *)

Garbage == [type |-> "garbage"]
\* config.py, line 31.
REFRESH_TOKEN_EXPIRE_DAYS == 7

\* security.py, line 84 and line 126: the stored hash of a jti.
sha256(token_id) == <<"sha256", token_id>>

\* security.py, lines 29-57.
create_access_token(subject) == [type |-> "access", sub |-> subject]

\* security.py, lines 60-86: the token, and the hash to store; token_id is
\* the uuid4 of line 71.
create_refresh_token(subject, token_id) ==
    [token |-> [type |-> "refresh", sub |-> subject, jti |-> token_id,
                exp |-> now + REFRESH_TOKEN_EXPIRE_DAYS],
     token_hash |-> sha256(token_id)]

\* models/user.py, lines 91-113: a new row.
RefreshToken(user_id, token_hash, expires_at) ==
    [user_id |-> user_id, token_hash |-> token_hash, is_revoked |-> FALSE,
     expires_at |-> expires_at]

\* jwt.decode raises JWTError: the signature is wrong or exp has passed.
JWTError(token) ==
    \/ token.type = "garbage"
    \/ token.type = "refresh" /\ token.exp <= now

\* security.py, lines 108-130: the payload with its jti hashed, or None.
verify_refresh_token(token) ==
    IF JWTError(token) THEN None
    ELSE IF token.type # "refresh" THEN None
    ELSE Some([sub |-> token.sub, jti |-> sha256(token.jti)])

\* The tokens and rows of the two logins (lines 106-122) that precede the
\* requests.
LoginTokens ==
    {[type |-> "refresh", sub |-> "u1", jti |-> 1,
      exp |-> REFRESH_TOKEN_EXPIRE_DAYS],
     [type |-> "refresh", sub |-> "u2", jti |-> 2,
      exp |-> REFRESH_TOKEN_EXPIRE_DAYS]}
LoginRows ==
    {RefreshToken("u1", sha256(1), REFRESH_TOKEN_EXPIRE_DAYS),
     RefreshToken("u2", sha256(2), REFRESH_TOKEN_EXPIRE_DAYS)}

ReceivedAuth ==
    [pc |-> "idle", endpoint |-> "none", token |-> Garbage,
     db_token |-> None, status |-> 0, data |-> None]

InitRefresh ==
    /\ EngineIdle
    /\ handler = [r \in Requests |-> ReceivedAuth]
    /\ temp_files = {}
    /\ database = [refresh_tokens |-> LoginRows]
    /\ daily_goal = None
    /\ now = 0

\* The tokens a client holds: those of the logins and of the answers.
Held ==
    LoginTokens
        \cup {handler[q].data[1].refresh_token :
                 q \in {x \in Requests : handler[x].data # None}}
        \cup {handler[q].data[1].access_token :
                 q \in {x \in Requests : handler[x].data # None}}

\* A client posts a token it holds, or anything else, to /refresh or /logout.
Present(r) ==
    /\ handler[r].pc = "idle"
    /\ \E endpoint \in {"refresh", "logout"}, token \in Held \cup {Garbage} :
           handler' = [handler EXCEPT ![r] =
               [@ EXCEPT !.endpoint = endpoint, !.token = token,
                         !.pc = "received"]]
    /\ UNCHANGED <<temp_files, database, daily_goal, now, engine>>

\* A day passes, as long as a stored token has not expired.
Tick ==
    /\ \E row \in database.refresh_tokens : row.expires_at > now
    /\ now' = now + 1
    /\ UNCHANGED <<handler, temp_files, database, daily_goal, engine>>

\* Lines 153-162: the rows the select of refresh_token returns.
ValidTokens(payload) ==
    {row \in database.refresh_tokens :
        /\ row.user_id = payload.sub
        /\ row.token_hash = payload.jti
        /\ row.is_revoked = FALSE
        /\ row.expires_at > now}

\* Lines 142-168: the token is verified and its row selected; 401 when the
\* token is refused or no row is valid.
RefreshSelect(r) ==
    /\ handler[r].pc = "received"
    /\ handler[r].endpoint = "refresh"
    /\ LET payload == verify_refresh_token(handler[r].token)
       IN  handler' = [handler EXCEPT ![r] =
               IF payload = None \/ ValidTokens(payload[1]) = {}
               THEN [@ EXCEPT !.status = 401, !.pc = "done"]
               ELSE [@ EXCEPT
                       !.db_token =
                           Some(CHOOSE row \in ValidTokens(payload[1]) : TRUE),
                       !.pc = "selected"]]
    /\ UNCHANGED <<temp_files, database, daily_goal, now, engine>>

\* The flush without the UPDATE: the rows stay as they are.
Revoked_not_written(db_token) == database.refresh_tokens

\* The UPDATE of a flush that sets is_revoked of the selected row; nothing
\* is written when the object already held True.
Revoked(db_token) ==
    {IF row.token_hash = db_token.token_hash /\ ~db_token.is_revoked
     THEN [row EXCEPT !.is_revoked = TRUE]
     ELSE row : row \in database.refresh_tokens}

\* Lines 170-195: the selected row is revoked, the new tokens are created,
\* the row of the new refresh token is inserted with the commit, and the
\* tokens are returned.
RefreshCommit(r) ==
    /\ handler[r].pc = "selected"
    /\ handler[r].endpoint = "refresh"
    /\ LET user_id == handler[r].token.sub
           token_id == Cardinality(database.refresh_tokens) + 1
           created == create_refresh_token(user_id, token_id)
           new_db_token == RefreshToken(user_id, created.token_hash,
                                        now + REFRESH_TOKEN_EXPIRE_DAYS)
       IN  /\ database' = [database EXCEPT !.refresh_tokens =
                  Revoked(handler[r].db_token[1]) \cup {new_db_token}]
           /\ handler' = [handler EXCEPT ![r] =
                  [@ EXCEPT !.status = 200,
                            !.data = Some(
                                [access_token |-> create_access_token(user_id),
                                 refresh_token |-> created.token]),
                            !.pc = "done"]]
    /\ UNCHANGED <<temp_files, daily_goal, now, engine>>

\* Lines 206-212 and 217: the token is verified and its row selected by the
\* hash alone; without a payload or a row, logout answers at once.
LogoutSelect(r) ==
    /\ handler[r].pc = "received"
    /\ handler[r].endpoint = "logout"
    /\ LET payload == verify_refresh_token(handler[r].token)
           rows == IF payload = None THEN {}
                   ELSE {row \in database.refresh_tokens :
                            row.token_hash = payload[1].jti}
       IN  handler' = [handler EXCEPT ![r] =
               IF rows = {}
               THEN [@ EXCEPT !.status = 200, !.pc = "done"]
               ELSE [@ EXCEPT !.db_token = Some(CHOOSE row \in rows : TRUE),
                              !.pc = "selected"]]
    /\ UNCHANGED <<temp_files, database, daily_goal, now, engine>>

\* Lines 213-217: the selected row is revoked and committed.
LogoutCommit(r) ==
    /\ handler[r].pc = "selected"
    /\ handler[r].endpoint = "logout"
    /\ database' = [database EXCEPT !.refresh_tokens =
           Revoked(handler[r].db_token[1])]
    /\ handler' = [handler EXCEPT ![r] =
           [@ EXCEPT !.status = 200, !.pc = "done"]]
    /\ UNCHANGED <<temp_files, daily_goal, now, engine>>

refresh_token(r) == RefreshSelect(r) \/ RefreshCommit(r)

logout(r) == LogoutSelect(r) \/ LogoutCommit(r)

NextRefresh ==
    \/ \E r \in Requests : Present(r) \/ refresh_token(r) \/ logout(r)
    \/ Tick

SpecRefresh == InitRefresh /\ [][NextRefresh]_vars

\* The token has been used in a successful /refresh or presented to /logout.
Spent(token) ==
    \E q \in Requests :
        /\ handler[q].pc = "done"
        /\ handler[q].token = token
        /\ \/ handler[q].endpoint = "refresh" /\ handler[q].status = 200
           \/ handler[q].endpoint = "logout"

\* The rows of the next state whose hash no row has now.
Stored ==
    {row \in database'.refresh_tokens :
        \A old \in database.refresh_tokens : old.token_hash # row.token_hash}

(* C23: a /refresh that looks its token up after the token was used in a   *)
(* successful /refresh or presented to /logout answers 401; a successful   *)
(* /refresh stores exactly one new row, not revoked, of the same user, for *)
(* the refresh token it returns; an access token is never accepted.        *)
C23_SingleUse ==
    [][\A r \in Requests :
          handler[r].endpoint = "refresh" =>
              /\ (/\ handler[r].pc = "received"
                  /\ handler'[r].pc # "received"
                  /\ Spent(handler[r].token)) => handler'[r].status = 401
              /\ (handler[r].status = 0 /\ handler'[r].status = 200) =>
                     /\ Cardinality(Stored) = 1
                     /\ \A row \in Stored :
                            /\ row.user_id = handler[r].token.sub
                            /\ row.is_revoked = FALSE
                            /\ row.token_hash =
                                   sha256(handler'[r].data[1].refresh_token.jti)
              /\ (handler[r].token.type = "access" /\ handler'[r].status # 0)
                     => handler'[r].status = 401]_vars

C23_Witness ==
    /\ handler[1].endpoint = "refresh"
    /\ handler[1].status = 200
    /\ handler[2].endpoint = "refresh"
    /\ handler[2].token = handler[1].token
    /\ handler[2].token.exp > now
    /\ handler[2].status = 401

(* C24: of the /refresh requests that present one refresh token at most    *)
(* one succeeds, however they overlap, so that at most one new refresh     *)
(* token is issued for it.                                                 *)
C24_OneSuccessor ==
    \A r, q \in Requests :
        (/\ r # q
         /\ handler[r].endpoint = "refresh"
         /\ handler[q].endpoint = "refresh"
         /\ handler[r].token = handler[q].token
         /\ handler[r].status = 200) => handler[q].status # 200

-----------------------------------------------------------------------------
(* social.py: send_friend_request, accept_friend_request and               *)
(* create_challenge, called one after the other: each call runs from its   *)
(* first select to its answer before the next begins, so a call is one     *)
(* step.  handler holds the last call and its answer.                      *)

\* The users table.
users ==
    {[id |-> "u1", username |-> "amina"], [id |-> "u2", username |-> "bilal"],
     [id |-> "u3", username |-> "dawud"]}
UserIds == {user.id : user \in users}

\* What a client may send: a username, a friendship id, an opponent id and
\* a challenge type, each also one that does not exist.
Usernames == {user.username : user \in users} \cup {"nobody"}
FriendshipIds == 0..Cardinality(UserIds)
OpponentIds == UserIds \cup {"u0"}

\* models/social.py, lines 30-35.
ChallengeType == {"recitation", "quiz", "streak"}
RequestedTypes == {"quiz", "duel"}

\* The challenges the model lets the table hold.
MaxChallenges == 1

NoCall == [endpoint |-> "none"]

InitSocial ==
    /\ EngineIdle
    /\ handler = NoCall
    /\ temp_files = {}
    /\ database = [friendships |-> {}, challenges |-> {}]
    /\ daily_goal = None
    /\ now = 0

\* A slip: only the requests the caller has sent are looked for.
Existing_one_direction(current_user, friend_id) ==
    {row \in database.friendships :
        row.user_id = current_user /\ row.friend_id = friend_id}

\* Lines 173-188: the rows between the two users, in either direction.
Existing(current_user, friend_id) ==
    {row \in database.friendships :
        \/ row.user_id = current_user /\ row.friend_id = friend_id
        \/ row.user_id = friend_id /\ row.friend_id = current_user}

\* models/social.py, lines 48-76: a new row; the id stands for the uuid4.
Friendship(user_id, friend_id) ==
    [id |-> Cardinality(database.friendships) + 1, user_id |-> user_id,
     friend_id |-> friend_id, status |-> "pending"]

\* Lines 146-225.
send_friend_request(current_user, friend_username) ==
    LET found == {user \in users : user.username = friend_username}
        friend == CHOOSE user \in found : TRUE
        call == [endpoint |-> "send_friend_request",
                 current_user |-> current_user,
                 friend_username |-> friend_username, status |-> 0]
        Answer(code) == handler' = [call EXCEPT !.status = code]
    IN  IF found = {}
        THEN Answer(404) /\ UNCHANGED database
        ELSE IF friend.id = current_user
        THEN Answer(400) /\ UNCHANGED database
        ELSE IF Cardinality(Existing(current_user, friend.id)) > 1
        THEN Answer(500) /\ UNCHANGED database
        ELSE IF Existing(current_user, friend.id) # {}
        THEN Answer(400) /\ UNCHANGED database
        ELSE /\ Answer(200)
             /\ database' = [database EXCEPT !.friendships =
                    @ \cup {Friendship(current_user, friend.id)}]

\* Lines 228-257.
accept_friend_request(current_user, friendship_id) ==
    LET found == {row \in database.friendships :
                     /\ row.id = friendship_id
                     /\ row.friend_id = current_user
                     /\ row.status = "pending"}
        friendship == CHOOSE row \in found : TRUE
        call == [endpoint |-> "accept_friend_request",
                 current_user |-> current_user,
                 friendship_id |-> friendship_id, status |-> 0]
    IN  IF found = {}
        THEN /\ handler' = [call EXCEPT !.status = 404]
             /\ UNCHANGED database
        ELSE /\ handler' = [call EXCEPT !.status = 200]
             /\ database' = [database EXCEPT !.friendships =
                    (@ \ {friendship})
                        \cup {[friendship EXCEPT !.status = "accepted"]}]

\* models/social.py, lines 91-136: a new row; the id stands for the uuid4.
Challenge(challenger_id, opponent_id, type) ==
    [id |-> Cardinality(database.challenges) + 1,
     challenger_id |-> challenger_id, opponent_id |-> opponent_id,
     type |-> type, status |-> "pending"]

\* Lines 327-387.
create_challenge(current_user, opponent_id, type) ==
    LET call == [endpoint |-> "create_challenge",
                 current_user |-> current_user, opponent_id |-> opponent_id,
                 type |-> type, status |-> 0]
    IN  IF opponent_id \notin UserIds
        THEN /\ handler' = [call EXCEPT !.status = 404]
             /\ UNCHANGED database
        ELSE IF type \notin ChallengeType
        THEN /\ handler' = [call EXCEPT !.status = 400]
             /\ UNCHANGED database
        ELSE /\ Cardinality(database.challenges) < MaxChallenges
             /\ handler' = [call EXCEPT !.status = 200]
             /\ database' = [database EXCEPT !.challenges =
                    @ \cup {Challenge(current_user, opponent_id, type)}]

SendFriendRequest ==
    /\ \E current_user \in UserIds, friend_username \in Usernames :
           send_friend_request(current_user, friend_username)
    /\ UNCHANGED <<temp_files, daily_goal, now, engine>>

AcceptFriendRequest ==
    /\ \E current_user \in UserIds, friendship_id \in FriendshipIds :
           accept_friend_request(current_user, friendship_id)
    /\ UNCHANGED <<temp_files, daily_goal, now, engine>>

CreateChallenge ==
    /\ \E current_user \in UserIds, opponent_id \in OpponentIds,
          type \in RequestedTypes :
           create_challenge(current_user, opponent_id, type)
    /\ UNCHANGED <<temp_files, daily_goal, now, engine>>

\* The calls that touch the friendships table, and all the calls.
NextFriends == SendFriendRequest \/ AcceptFriendRequest

SpecFriends == InitSocial /\ [][NextFriends]_vars

NextSocial == SendFriendRequest \/ AcceptFriendRequest \/ CreateChallenge

SpecSocial == InitSocial /\ [][NextSocial]_vars

\* The user the username names, or None.
UserNamed(username) ==
    IF \E user \in users : user.username = username
    THEN Some((CHOOSE user \in users : user.username = username).id)
    ELSE None

\* The two users of a row, in no order.
Pair(row) == {row.user_id, row.friend_id}

\* What a call may do to the friendships table, and what it leaves.
FriendshipStep ==
    /\ \A new \in database'.friendships :
           /\ new.user_id # new.friend_id
           /\ \A other \in database'.friendships :
                  Pair(other) = Pair(new) => other = new
    /\ handler'.endpoint = "send_friend_request" =>
           LET friend == UserNamed(handler'.friend_username)
               me == handler'.current_user
           IN  (/\ friend # None
                /\ \/ friend[1] = me
                   \/ \E old \in database.friendships :
                          Pair(old) = {me, friend[1]}) =>
                   /\ handler'.status = 400
                   /\ database'.friendships = database.friendships
    /\ \A row \in database.friendships :
           \/ row \in database'.friendships
           \/ /\ row.status = "pending"
              /\ [row EXCEPT !.status = "accepted"] \in database'.friendships
              /\ handler'.endpoint = "accept_friend_request"
              /\ handler'.current_user = row.friend_id
              /\ handler'.friendship_id = row.id
              /\ handler'.status = 200

(* C28: after any sequence of send_friend_request and accept_friend_request *)
(* calls that do not overlap there is at most one friendships row per pair *)
(* of users and none of a user with themself; a request to oneself or to a *)
(* user with whom a row exists in either direction is answered 400 and     *)
(* adds no row; a row changes only from pending to accepted, and only by   *)
(* accept_friend_request called by its friend_id.                          *)
C28_Friendships == [][FriendshipStep]_vars

\* bilal, who accepted amina's request, asks amina and is refused.
C28_Witness ==
    /\ handler.endpoint = "send_friend_request"
    /\ handler.current_user = "u2"
    /\ handler.friend_username = "amina"
    /\ handler.status = 400
    /\ \E row \in database.friendships :
           /\ row.user_id = "u1"
           /\ row.friend_id = "u2"
           /\ row.status = "accepted"
    /\ Cardinality(database.friendships) = 2

\* The two users have a friendship that was accepted.
Friends(a, b) ==
    \E row \in database.friendships :
        Pair(row) = {a, b} /\ row.status = "accepted"

(* C29: every challenges row is between two different users who have an    *)
(* accepted friendship and has status pending; a create_challenge against  *)
(* anyone else is rejected.                                                *)
C29_ChallengeOnlyFriends ==
    /\ \A challenge \in database.challenges :
           /\ challenge.challenger_id # challenge.opponent_id
           /\ Friends(challenge.challenger_id, challenge.opponent_id)
           /\ challenge.status = "pending"
    /\ (/\ handler.endpoint = "create_challenge"
        /\ \/ handler.current_user = handler.opponent_id
           \/ ~Friends(handler.current_user, handler.opponent_id)) =>
           handler.status >= 400

====
